---- MODULE Spec2Model ----
(***************************************************************************)
(* Transcription orchestration layer of speech-to-phrase:                  *)
(*   - the per-backend resource caches and the four transcribe_* entry     *)
(*     points (ChunkFormer, VietASR, Vosk, Whisper), as coroutines that    *)
(*     suspend only at "async for chunk in audio_stream";                  *)
(*   - the Vietnamese transcript normalizer (vi_normalize.py);             *)
(*   - the greedy transducer search of the VietASR backend.                *)
(* Each part has its own specification over the shared variable list; the  *)
(* variables of the other parts stay at their initial values.              *)
(***************************************************************************)
EXTENDS Integers, Sequences, FiniteSets, TLC

(* ---------------------------------------------------------------------- *)
(* Bounds                                                                  *)
(* ---------------------------------------------------------------------- *)
\* number of transcription requests in one behaviour
NumReq == 2
\* number of audio bytes one stream delivers at most
MaxBytes == 2

Req == 1..NumReq
Backends == {"chunkformer", "vietasr", "vosk", "whisper"}
Families == {"vi", "en"}
\* sizes (in bytes) of the chunks an audio stream may deliver
ChunkSizes == {0, 1, 2}
\* raw text a backend may recognise: nothing, words, or only full stops
RawTexts == {"", "words", "dots"}

VARIABLES
  model,                \* the Model descriptor all requests use (type, language_family)
  installed,            \* the backend's packages can be imported in this process
  pc,                   \* position of each request's coroutine
  RESOURCES,            \* the backend's module-level cache for the model key (0: no entry)
  loaderCalls,          \* number of invocations of the backend loader so far
  cached,               \* what each request found in the cache at its lookup (0: miss)
  resources,            \* the cache entry each request works with (0: none)
  ops,                  \* backend/disk operations invoked by each request
  audio_bytes,          \* number of bytes each request has collected (Vosk: has fed)
  recognized_fragments, \* Vosk: the captured texts, each named by the stream position
                        \* (bytes fed so far) at which the recognizer produced it
                        \* (both are locals of the coroutine: gone when it ends)
  outcome,              \* how each request ended
  result,               \* what kind of string a returned request produced
  stages,               \* post-processing stages applied to the text, in order
  scratch               \* ChunkFormer: the scratch WAV file of the request exists

reqVars == <<model, installed, pc, RESOURCES, loaderCalls, cached, resources, ops, audio_bytes,
             recognized_fragments, outcome, result, stages, scratch>>

VARIABLES
  npc,                  \* normalizer run: which functions have been applied
  transcript,           \* the input text, a sequence of symbols
  numbers,              \* normalize_vietnamese_numbers(transcript)
  once,                 \* normalize_vietnamese_transcript(transcript)
  twice,                \* normalize_vietnamese_transcript(once)
  words_value           \* _words_to_number(transcript.split())

normVars == <<npc, transcript, numbers, once, twice, words_value>>

VARIABLES
  gpc,                  \* greedy search: position in _greedy_search
  dim,                  \* rank of encoder_out
  context_size,         \* model.decoder.context_size
  encoder_out_lens,     \* number of encoder frames of each batch element
  batch_size_list,      \* packed_encoder_out.batch_sizes
  sorted_indices,       \* packed_encoder_out.sorted_indices: row k of the packed
                        \* data holds the frames of batch element sorted_indices[k]
  unsorted_indices,     \* packed_encoder_out.unsorted_indices
  offset,               \* rows of packed_encoder_out.data consumed so far
  hyps,                 \* token ids of each (length-sorted) element, seed included
  decoder_out,          \* per row: the context the decoder output was computed from
  joiner_calls,         \* number of joiner evaluations so far
  decoder_calls,        \* number of decoder evaluations so far
  top_history,          \* the top_ids of every step so far
  results               \* what _greedy_search returns

greedyVars == <<gpc, dim, context_size, encoder_out_lens, batch_size_list,
                sorted_indices, unsorted_indices, offset, hyps, decoder_out, joiner_calls,
                decoder_calls, top_history, results>>

VARIABLES
  kpc,                  \* token conversion: which step has been taken
  token_table,          \* resources.tokens, the list read from tokens.txt
  sentence,             \* the words of the string that is encoded
  token_ids,            \* the ids handed to _tokens_to_text
  decoded               \* what _tokens_to_text returns

tokenVars == <<kpc, token_table, sentence, token_ids, decoded>>

VARIABLES
  vpc,                  \* Vosk streaming: position of each request's coroutine
  VOSK_MODELS,          \* _VOSK_MODELS[model_dir] (0: no entry)
  vosk_model,           \* the VoskModel each request works with (0: none)
  recognizer,           \* the KaldiRecognizer each request created (0: none)
  accepted,             \* per recognizer: the chunks given to AcceptWaveform, in order
  produced,             \* per recognizer: the non-empty texts it has returned, in order
  flushes,              \* per request: number of FinalResult() calls
  arrived,              \* per request: number of non-empty chunks its stream delivered
  fragments,            \* per request: its list recognized_fragments
                        \* (arrived, fragments and what a recognizer holds of the
                        \* audio are dropped when the request ends, and all of the
                        \* recognizer when it ends with an exception)
  joined,               \* per request: the text handed to casing_func ("" if none)
  voutcome              \* how each request ended

voskVars == <<vpc, VOSK_MODELS, vosk_model, recognizer, accepted, produced, flushes,
              arrived, fragments, joined, voutcome>>

vars == <<reqVars, normVars, greedyVars, tokenVars, voskVars>>
notReq == <<normVars, greedyVars, tokenVars, voskVars>>
notNorm == <<reqVars, greedyVars, tokenVars, voskVars>>
notGreedy == <<reqVars, normVars, tokenVars, voskVars>>
notToken == <<reqVars, normVars, greedyVars, voskVars>>
notVosk == <<reqVars, normVars, greedyVars, tokenVars>>

(* ---------------------------------------------------------------------- *)
(* Resource loading: the synchronous prefix of every transcribe function   *)
(* ---------------------------------------------------------------------- *)
\* What the environment answers during one load attempt.
\*   deps: the backend's packages import (the same for the whole process:
\*   the action passes the variable installed); files: the required files (Vosk: the
\*   model directory) exist; repo: model.url names a HuggingFace repository;
\*   download: snapshot_download succeeds; load: the loader succeeds;
\*   tokens: tokens.txt yields a non-empty table.
AllOk == [deps |-> TRUE, files |-> TRUE, repo |-> TRUE,
          download |-> TRUE, load |-> TRUE, tokens |-> TRUE]
LoadEnvs == {AllOk,
             [AllOk EXCEPT !.files = FALSE],
             [AllOk EXCEPT !.files = FALSE, !.repo = FALSE],
             [AllOk EXCEPT !.files = FALSE, !.download = FALSE],
             [AllOk EXCEPT !.load = FALSE],
             [AllOk EXCEPT !.tokens = FALSE]}

Loaded(o) == [raise |-> "none", ops |-> o, insert |-> TRUE]
Hit(o) == [raise |-> "none", ops |-> o, insert |-> FALSE]
\* a failing load that stores an entry under the key all the same
Raise_inserting(kind, o) == [raise |-> kind, ops |-> o, insert |-> TRUE]
\* a load that raises: nothing is stored
Raise(kind, o) == [raise |-> kind, ops |-> o, insert |-> FALSE]

\* transcribe_chunkformer.py: _ensure_model_files
chunkformer_ensure_model_files(env) ==
  IF env.files THEN Hit({"verify"})
  ELSE IF ~env.repo THEN Raise("TranscribingError", {"verify"})
  ELSE IF ~env.download THEN Raise("TranscribingError", {"verify", "download"})
  ELSE Hit({"verify", "download"})

\* _load_resources without the lookup of the cached entry
chunkformer_load_resources_no_lookup(entry, env) ==
  IF ~env.deps THEN Raise("TranscribingError", {})
  ELSE LET f == chunkformer_ensure_model_files(env) IN
       IF f.raise # "none" THEN f
       ELSE IF ~env.load THEN Raise("TranscribingError", f.ops \cup {"loader"})
       ELSE Loaded(f.ops \cup {"loader"})

\* transcribe_chunkformer.py: _require_dependencies, _load_resources
chunkformer_load_resources(entry, env) ==
  IF ~env.deps THEN Raise("TranscribingError", {})
  ELSE IF entry # 0 THEN Hit({})
  ELSE LET f == chunkformer_ensure_model_files(env) IN
       IF f.raise # "none" THEN f
       ELSE IF ~env.load THEN Raise("TranscribingError", f.ops \cup {"loader"})
       ELSE Loaded(f.ops \cup {"loader"})

\* transcribe_vietasr.py: _require_dependencies, _load_resources
vietasr_load_resources(entry, env) ==
  IF ~env.deps THEN Raise("TranscribingError", {})
  ELSE IF entry # 0 THEN Hit({})
  ELSE IF ~env.files THEN Raise("TranscribingError", {"verify"})
  ELSE IF ~env.load THEN Raise("Exception", {"verify", "loader"})
  ELSE IF ~env.tokens THEN Raise("TranscribingError", {"verify", "loader"})
  ELSE Loaded({"verify", "loader"})

\* transcribe_vosk.py: import guard, directory check, _VOSK_MODELS lookup
vosk_load_resources(entry, env) ==
  IF ~env.deps THEN Raise("TranscribingError", {})
  ELSE IF ~env.files THEN Raise("TranscribingError", {"verify"})
  ELSE IF entry # 0 THEN Hit({"verify"})
  ELSE IF ~env.load THEN Raise("Exception", {"verify", "loader"})
  ELSE Loaded({"verify", "loader"})

\* transcribe_whisper.py: import guard, _WHISPER_MODELS lookup, pipeline(...)
whisper_load_resources(entry, env) ==
  IF ~env.deps THEN Raise("TranscribingError", {})
  ELSE IF entry # 0 THEN Hit({})
  ELSE IF ~env.load THEN Raise("TranscribingError", {"loader"})
  ELSE Loaded({"loader"})

load_resources(type, entry, env) ==
  CASE type = "chunkformer" -> chunkformer_load_resources(entry, env)
    [] type = "vietasr" -> vietasr_load_resources(entry, env)
    [] type = "vosk" -> vosk_load_resources(entry, env)
    [] type = "whisper" -> whisper_load_resources(entry, env)

\* The entry a successful load stores under the key: every loader invocation
\* builds a new object, identified here by the ordinal of the invocation.
NewEntry(calls) == calls + 1

\* A request is called: it runs without suspension up to its first
\* "async for" await, i.e. through the whole cache lookup and load.
Enter(r) ==
  /\ pc[r] = "idle"
  /\ \E env \in LoadEnvs :
       LET l == load_resources(model.type, RESOURCES, [env EXCEPT !.deps = installed])
           calls == IF "loader" \in l.ops THEN loaderCalls + 1 ELSE loaderCalls
           entry == IF l.insert THEN NewEntry(loaderCalls) ELSE RESOURCES
       IN /\ cached' = [cached EXCEPT ![r] = RESOURCES]
          /\ loaderCalls' = calls
          /\ RESOURCES' = entry
          /\ ops' = [ops EXCEPT ![r] = l.ops]
          /\ IF l.raise = "none"
               THEN /\ pc' = [pc EXCEPT ![r] = "stream"]
                    /\ resources' = [resources EXCEPT ![r] = entry]
                    /\ outcome' = outcome
               ELSE /\ pc' = [pc EXCEPT ![r] = "done"]
                    /\ resources' = resources
                    /\ outcome' = [outcome EXCEPT ![r] = l.raise]
  /\ UNCHANGED <<model, installed, audio_bytes, recognized_fragments, result, stages,
                 scratch>>
  /\ UNCHANGED notReq

(* ---------------------------------------------------------------------- *)
(* Audio accumulation: one iteration of "async for chunk in audio_stream"   *)
(* ---------------------------------------------------------------------- *)
\* What the Vosk recognizer answers to one AcceptWaveform call.
AcceptAnswers == {"raise", "more", "boundary_text", "boundary_empty"}

\* transcribe_chunkformer.py / transcribe_vietasr.py / transcribe_whisper.py:
\*   if chunk: audio_bytes.extend(chunk)
collect_chunk(bytes, size) == IF size # 0 THEN bytes + size ELSE bytes

\* transcribe_vosk.py: loop body. An empty chunk is skipped; any other chunk is
\* fed to the request's recognizer, and on a boundary the stripped, non-empty
\* text of Result() is appended to recognized_fragments. at: the position in
\* the stream after this chunk, which names the text captured here.
vosk_feed_chunk(frags, size, at, answer) ==
  IF size = 0 THEN [raise |-> "none", ops |-> {}, frags |-> frags]
  ELSE IF answer = "raise"
    THEN [raise |-> "Exception", ops |-> {"AcceptWaveform"}, frags |-> frags]
  ELSE IF answer = "more"
    THEN [raise |-> "none", ops |-> {"AcceptWaveform"}, frags |-> frags]
  ELSE IF answer = "boundary_text"
    THEN [raise |-> "none", ops |-> {"AcceptWaveform", "Result"},
          frags |-> Append(frags, at)]
  ELSE [raise |-> "none", ops |-> {"AcceptWaveform", "Result"}, frags |-> frags]

\* The stream delivers one more chunk to a suspended request.
Chunk(r) ==
  /\ pc[r] = "stream"
  /\ \E size \in ChunkSizes, answer \in AcceptAnswers :
       /\ audio_bytes[r] + size <= MaxBytes
       /\ IF model.type = "vosk"
            THEN LET f == vosk_feed_chunk(recognized_fragments[r], size,
                                          audio_bytes[r] + size, answer)
                 IN /\ ops' = [ops EXCEPT ![r] = @ \cup f.ops]
                    /\ IF f.raise = "none"
                         THEN /\ audio_bytes' =
                                   [audio_bytes EXCEPT ![r] = collect_chunk(@, size)]
                              /\ recognized_fragments' =
                                   [recognized_fragments EXCEPT ![r] = f.frags]
                              /\ UNCHANGED <<pc, outcome>>
                         ELSE /\ pc' = [pc EXCEPT ![r] = "done"]
                              /\ outcome' = [outcome EXCEPT ![r] = f.raise]
                              /\ audio_bytes' = [audio_bytes EXCEPT ![r] = 0]
                              /\ recognized_fragments' =
                                   [recognized_fragments EXCEPT ![r] = <<>>]
            ELSE /\ answer = "more"
                 /\ audio_bytes' = [audio_bytes EXCEPT ![r] = collect_chunk(@, size)]
                 /\ UNCHANGED <<ops, recognized_fragments, pc, outcome>>
  /\ UNCHANGED <<model, installed, RESOURCES, loaderCalls, cached, resources, result,
                 stages, scratch>>
  /\ UNCHANGED notReq

(* ---------------------------------------------------------------------- *)
(* After the stream is exhausted: decoding and post-processing             *)
(* ---------------------------------------------------------------------- *)
\* What the environment answers while one request decodes.
\*   wav: the scratch WAV file is written; infer: the backend's inference
\*   succeeds; shape: the encoder output is rank 3; text: the text recognised.
DecodeOk(text) == [wav |-> TRUE, infer |-> TRUE, shape |-> TRUE, text |-> text]
DecodeEnvs == {DecodeOk(t) : t \in RawTexts}
              \cup {[DecodeOk("words") EXCEPT !.wav = FALSE],
                    [DecodeOk("words") EXCEPT !.infer = FALSE],
                    [DecodeOk("words") EXCEPT !.shape = FALSE]}

Return(res, o, st) ==
  [raise |-> "none", result |-> res, ops |-> o, stages |-> st, scratch |-> FALSE]
Fail(kind, o, file) ==
  [raise |-> kind, result |-> "none", ops |-> o, stages |-> <<>>, scratch |-> file]

\* str.strip() / str.rstrip(".") on the three kinds of text
strip(text) == text
rstrip_dots(text) == IF text = "dots" THEN "" ELSE text

\* post_process.py: finalize_transcript. done: the stages applied before the call.
finalize_transcript(family, text, o, done) ==
  LET normalized == strip(text) IN
  IF normalized = "" THEN Return("empty", o, done)
  ELSE Return("phrase", o,
              done \o (IF family = "vi" THEN <<"vi_normalize">> ELSE <<>>)
                   \o <<"decode_meta">>)

\* transcribe_chunkformer.py: transcribe_chunkformer, after the async for
chunkformer_decode(family, bytes, env) ==
  IF bytes = 0 THEN Return("empty", {}, <<>>)
  ELSE IF ~env.wav THEN Fail("Exception", {"write_temp_wav"}, TRUE)
  ELSE IF ~env.infer
    THEN Fail("TranscribingError", {"write_temp_wav", "endless_decode"}, FALSE)
  ELSE IF env.text = "" THEN Return("empty", {"write_temp_wav", "endless_decode"}, <<>>)
  ELSE IF strip(env.text) = ""
    THEN Return("empty", {"write_temp_wav", "endless_decode"}, <<"casing">>)
  ELSE finalize_transcript(family, strip(env.text),
                           {"write_temp_wav", "endless_decode"}, <<"casing">>)

\* transcribe_vietasr.py: transcribe_vietasr, after the async for
\* (np.frombuffer raises ValueError on an odd number of bytes)
vietasr_decode(family, bytes, env) ==
  IF bytes = 0 THEN Return("empty", {}, <<>>)
  ELSE IF bytes % 2 # 0 THEN Fail("Exception", {}, FALSE)
  ELSE IF ~env.infer THEN Fail("Exception", {"fbank", "encoder"}, FALSE)
  ELSE IF ~env.shape THEN Fail("TranscribingError", {"fbank", "encoder"}, FALSE)
  ELSE IF env.text = ""
    THEN Return("empty", {"fbank", "encoder", "decoder", "joiner"}, <<>>)
  ELSE IF strip(env.text) = ""
    THEN Return("empty", {"fbank", "encoder", "decoder", "joiner"}, <<"casing">>)
  ELSE finalize_transcript(family, strip(env.text),
                           {"fbank", "encoder", "decoder", "joiner"}, <<"casing">>)

\* transcribe_whisper.py: transcribe_whisper, after the async for
\* (array.array("h", ...) raises ValueError on an odd number of bytes)
whisper_decode(family, bytes, env) ==
  IF bytes = 0 THEN Return("empty", {}, <<>>)
  ELSE IF bytes % 2 # 0 THEN Fail("Exception", {}, FALSE)
  ELSE IF ~env.infer THEN Fail("TranscribingError", {"pipeline"}, FALSE)
  ELSE IF strip(env.text) = "" THEN Return("empty", {"pipeline"}, <<>>)
  ELSE finalize_transcript(family, rstrip_dots(env.text), {"pipeline"}, <<"casing">>)

\* transcribe_vosk.py: transcribe_vosk, after the async for
vosk_decode(family, frags, at, env) ==
  IF ~env.infer THEN Fail("Exception", {"FinalResult"}, FALSE)
  ELSE LET all == IF strip(env.text) # "" THEN Append(frags, at) ELSE frags IN
       IF all = <<>> THEN Return("empty", {"FinalResult"}, <<>>) @@ [frags |-> all]
       ELSE Return("phrase", {"FinalResult"}, <<"casing", "decode_meta">>)
              @@ [frags |-> all]

decode(type, family, bytes, frags, at, env) ==
  CASE type = "chunkformer" -> chunkformer_decode(family, bytes, env) @@ [frags |-> frags]
    [] type = "vietasr" -> vietasr_decode(family, bytes, env) @@ [frags |-> frags]
    [] type = "whisper" -> whisper_decode(family, bytes, env) @@ [frags |-> frags]
    [] type = "vosk" -> vosk_decode(family, frags, at, env) @@ [frags |-> frags]

\* The stream ends: the request runs to completion without suspending again.
EndOfStream(r) ==
  /\ pc[r] = "stream"
  /\ \E env \in DecodeEnvs :
       LET d == decode(model.type, model.language_family, audio_bytes[r],
                       recognized_fragments[r], MaxBytes + 1, env)
       IN /\ pc' = [pc EXCEPT ![r] = "done"]
          /\ ops' = [ops EXCEPT ![r] = @ \cup d.ops]
          /\ outcome' = [outcome EXCEPT ![r] =
                           IF d.raise = "none" THEN "returned" ELSE d.raise]
          /\ result' = [result EXCEPT ![r] = d.result]
          /\ stages' = [stages EXCEPT ![r] = d.stages]
          /\ scratch' = [scratch EXCEPT ![r] = d.scratch]
          /\ audio_bytes' = [audio_bytes EXCEPT ![r] = 0]
          /\ recognized_fragments' = [recognized_fragments EXCEPT ![r] = <<>>]
  /\ UNCHANGED <<model, installed, RESOURCES, loaderCalls, cached, resources>>
  /\ UNCHANGED notReq

\* no request has been made
ReqIdle ==
  /\ pc = [r \in Req |-> "idle"]
  /\ RESOURCES = 0
  /\ loaderCalls = 0
  /\ cached = [r \in Req |-> 0]
  /\ resources = [r \in Req |-> 0]
  /\ ops = [r \in Req |-> {}]
  /\ audio_bytes = [r \in Req |-> 0]
  /\ recognized_fragments = [r \in Req |-> <<>>]
  /\ outcome = [r \in Req |-> "pending"]
  /\ result = [r \in Req |-> "none"]
  /\ stages = [r \in Req |-> <<>>]
  /\ scratch = [r \in Req |-> FALSE]

\* the normalizer has not been run
NormIdle ==
  /\ npc = "idle"
  /\ transcript = <<>>
  /\ numbers = <<>>
  /\ once = <<>>
  /\ twice = <<>>
  /\ words_value = -1

\* _greedy_search has not been called
GreedyIdle ==
  /\ gpc = "idle"
  /\ dim = 3
  /\ context_size = 1
  /\ encoder_out_lens = <<>>
  /\ batch_size_list = <<>>
  /\ sorted_indices = <<>>
  /\ unsorted_indices = <<>>
  /\ offset = 0
  /\ hyps = <<>>
  /\ decoder_out = <<>>
  /\ joiner_calls = 0
  /\ decoder_calls = 0
  /\ top_history = <<>>
  /\ results = <<>>

\* no Vosk request of the streaming specification has been made
VoskIdle ==
  /\ vpc = [r \in Req |-> "idle"]
  /\ VOSK_MODELS = 0
  /\ vosk_model = [r \in Req |-> 0]
  /\ recognizer = [r \in Req |-> 0]
  /\ accepted = [id \in Req |-> <<>>]
  /\ produced = [id \in Req |-> <<>>]
  /\ flushes = [r \in Req |-> 0]
  /\ arrived = [r \in Req |-> 0]
  /\ fragments = [r \in Req |-> <<>>]
  /\ joined = [r \in Req |-> <<>>]
  /\ voutcome = [r \in Req |-> "pending"]

\* _tokens_to_text has not been called
TokenIdle ==
  /\ kpc = "idle"
  /\ token_table = <<>>
  /\ sentence = <<>>
  /\ token_ids = <<>>
  /\ decoded = <<>>

Init ==
  /\ model \in [type : Backends, language_family : Families]
  /\ installed \in BOOLEAN
  /\ ReqIdle
  /\ NormIdle
  /\ GreedyIdle
  /\ TokenIdle
  /\ VoskIdle

Next == \E r \in Req : Enter(r) \/ Chunk(r) \/ EndOfStream(r)

Spec == Init /\ [][Next]_vars

(* ---------------------------------------------------------------------- *)
(* Properties of the transcription requests (specification Spec)           *)
(* ---------------------------------------------------------------------- *)
AllEntered == \A r \in Req : pc[r] # "idle"
\* the request ended before it obtained a resource entry
FailedToLoad(r) == pc[r] = "done" /\ resources[r] = 0
LoadOps == {"loader", "verify", "download"}
InferenceOps == {"endless_decode", "fbank", "encoder", "decoder", "joiner",
                 "AcceptWaveform", "Result", "FinalResult", "pipeline"}

C2_CachedEntryReused ==
  \A r \in Req : cached[r] # 0 =>
     /\ resources[r] = cached[r]
     /\ ops[r] \cap LoadOps = {}

\* C3: a request whose stream ends without having delivered an audio byte
\* returns the empty string and has invoked no inference operation of the
\* backend.
C3_EmptyAudioNoInference ==
  [][\A r \in Req : (EndOfStream(r) /\ audio_bytes[r] = 0) =>
        /\ outcome'[r] = "returned"
        /\ result'[r] = "empty"
        /\ ops'[r] \cap InferenceOps = {}]_vars

\* C4: every returned phrase went through casing, then the Vietnamese
\* normalizer exactly when model.language_family is "vi", then decode_meta.
C4_PipelineOrder ==
  \A r \in Req : (outcome[r] = "returned" /\ result[r] = "phrase") =>
     stages[r] = <<"casing">>
                 \o (IF model.language_family = "vi" THEN <<"vi_normalize">> ELSE <<>>)
                 \o <<"decode_meta">>

\* C5: a request ends by returning or with TranscribingError; no other
\* exception kind escapes.
C5_OnlyTranscribingError ==
  \A r \in Req : outcome[r] \in {"pending", "returned", "TranscribingError"}

\* C6: when a ChunkFormer request has returned or raised, its scratch WAV file
\* no longer exists.
C6_ScratchRemoved ==
  \A r \in Req : pc[r] = "done" => ~scratch[r]

\* C13: a request whose load fails ends with an error and leaves the cache as
\* it was; while no entry is stored every request called (with the packages
\* installed) observes a miss and attempts the load; and the cache changes only
\* in the call of a request that completed its whole load, to the entry that
\* request goes on to use.
C13_FailedLoadLeavesCache ==
  /\ [][\A r \in Req : (Enter(r) /\ pc'[r] = "done") =>
           /\ outcome'[r] \in {"TranscribingError", "Exception"}
           /\ RESOURCES' = RESOURCES]_vars
  /\ [][\A r \in Req : (Enter(r) /\ installed /\ RESOURCES = 0) =>
           /\ cached'[r] = 0
           /\ ops'[r] \cap LoadOps # {}]_vars
  /\ [][RESOURCES' # RESOURCES =>
           \E r \in Req : /\ Enter(r)
                          /\ pc'[r] = "stream"
                          /\ "loader" \in ops'[r]
                          /\ resources'[r] = RESOURCES']_vars

\* the first request failed in the loader, the second one found no entry,
\* loaded again and stored its entry
C13_Witness ==
  /\ pc[1] = "done" /\ outcome[1] # "returned" /\ "loader" \in ops[1]
  /\ pc[2] = "stream" /\ cached[2] = 0 /\ "loader" \in ops[2]
  /\ resources[2] = RESOURCES /\ RESOURCES # 0
  /\ loaderCalls = 2

\* C12: a Whisper or VietASR request whose stream ends with an odd number of
\* collected bytes does not fail because of the odd length: it returns, or it
\* ends with an error of the inference it went on to invoke.
C12_OddByteCountTruncated ==
  [][\A r \in Req :
       (/\ EndOfStream(r)
        /\ model.type \in {"whisper", "vietasr"}
        /\ audio_bytes[r] % 2 = 1) =>
          \/ outcome'[r] = "returned"
          \/ ops'[r] \cap InferenceOps # {}]_vars
(* ====================================================================== *)
(* The Vietnamese transcript normalizer (vi_normalize.py)                   *)
(* ====================================================================== *)
\* A text is a sequence of symbols. " " is the space; the symbols "ti", "vi",
\* "ga", "ra", "-", "." are the pieces the literal substitutions are made
\* of; every other symbol is a whole word none of whose characters takes part
\* in a substitution pattern. A token (an element of text.split()) is the
\* sequence of the symbols between two runs of spaces.
\* Words are spelled as in the source, except that a-breve and d-stroke, which
\* the parser does not accept in strings, are written a and d: "nam", "lam",
\* "tram" and "dộ" stand for the source's words for five/year, five, hundred
\* and degree.

\* largest number of words in a text of words separated by single spaces
MaxTokens == 3
\* largest number of symbols in a text with free spacing
MaxLen == 4

None == -1

NUMBER_UNITS ==
  [w \in {"không", "một", "mốt", "hai", "ba", "bốn", "tư", "nam", "lam",
          "sáu", "bảy", "tám", "chín"} |->
     CASE w = "không" -> 0
       [] w \in {"một", "mốt"} -> 1
       [] w = "hai" -> 2
       [] w = "ba" -> 3
       [] w \in {"bốn", "tư"} -> 4
       [] w \in {"nam", "lam"} -> 5
       [] w = "sáu" -> 6
       [] w = "bảy" -> 7
       [] w = "tám" -> 8
       [] w = "chín" -> 9]
NUMBER_TOKENS == DOMAIN NUMBER_UNITS \cup {"mười", "mươi", "linh", "lẻ", "tram"}
NUMBER_FOLLOWERS == {"giờ", "phút", "giây", "ngày", "tháng", "nam", "dộ", "phần", "rưỡi"}

\* the word a token spells when it is a single whole-word symbol, else ""
Word(token) == IF Len(token) = 1 THEN token[1] ELSE ""

RECURSIVE words_to_number_loop(_, _, _, _)
words_to_number_loop(words, k, total, value_set) ==
  IF k > Len(words) THEN (IF value_set THEN total ELSE None)
  ELSE LET word == words[k] IN
    IF word = "mười"
      THEN words_to_number_loop(words, k + 1, IF total = 0 THEN 10 ELSE total + 10, TRUE)
    ELSE IF word = "mươi"
      THEN words_to_number_loop(words, k + 1, (IF total # 0 THEN total ELSE 1) * 10, TRUE)
    ELSE IF word \in {"linh", "lẻ"}
      THEN words_to_number_loop(words, k + 1, total, TRUE)
    ELSE IF word = "tram"
      THEN words_to_number_loop(words, k + 1, (IF total # 0 THEN total ELSE 1) * 100, TRUE)
    ELSE IF word \notin DOMAIN NUMBER_UNITS THEN None
    ELSE words_to_number_loop(words, k + 1,
                              IF total >= 10 \/ value_set
                                THEN total + NUMBER_UNITS[word]
                                ELSE NUMBER_UNITS[word],
                              TRUE)

\* _words_to_number that takes a list of two or more bare unit words for no number
words_to_number_units_rejected(words) ==
  IF words = <<>> THEN None
  ELSE IF Len(words) >= 2 /\ \A k \in DOMAIN words : words[k] \in DOMAIN NUMBER_UNITS
    THEN None
  ELSE words_to_number_loop(words, 1, 0, FALSE)

\* vi_normalize.py: _words_to_number
words_to_number(words) ==
  IF words = <<>> THEN None ELSE words_to_number_loop(words, 1, 0, FALSE)

\* str.split(): the maximal space-free pieces of the text, in order
RECURSIVE split_from(_, _, _, _)
split_from(text, i, token, tokens) ==
  IF i > Len(text)
    THEN (IF token = <<>> THEN tokens ELSE Append(tokens, token))
  ELSE IF text[i] = " "
    THEN split_from(text, i + 1, <<>>,
                    IF token = <<>> THEN tokens ELSE Append(tokens, token))
  ELSE split_from(text, i + 1, Append(token, text[i]), tokens)
split(text) == split_from(text, 1, <<>>, <<>>)

\* " ".join(tokens)
RECURSIVE join(_)
join(tokens) ==
  IF tokens = <<>> THEN <<>>
  ELSE IF Len(tokens) = 1 THEN tokens[1]
  ELSE tokens[1] \o <<" ">> \o join(Tail(tokens))

\* str.replace(old, new): the non-overlapping occurrences, leftmost first
RECURSIVE replace_from(_, _, _, _)
replace_from(text, i, old, new) ==
  IF i > Len(text) THEN <<>>
  ELSE IF i + Len(old) - 1 <= Len(text) /\ SubSeq(text, i, i + Len(old) - 1) = old
    THEN new \o replace_from(text, i + Len(old), old, new)
  ELSE <<text[i]>> \o replace_from(text, i + 1, old, new)
replace(text, old, new) == replace_from(text, 1, old, new)

\* the index after the run of number-bearing tokens that starts at i
RECURSIVE run_end(_, _)
run_end(tokens, j) ==
  IF j <= Len(tokens) /\ Word(tokens[j]) \in NUMBER_TOKENS
    THEN run_end(tokens, j + 1) ELSE j

\* should_convert without the threshold of 10 on a run that ends the text
should_convert_any_trailing(tokens, j, number_value) ==
  LET next_token == IF j <= Len(tokens) THEN Word(tokens[j]) ELSE "" IN
  \/ next_token \in NUMBER_FOLLOWERS
  \/ next_token = "phần" /\ j + 1 <= Len(tokens) /\ Word(tokens[j + 1]) = "tram"
  \/ next_token = "rưỡi"
  \/ j = Len(tokens) + 1 /\ number_value \notin {None, 0}

\* the guard of normalize_vietnamese_numbers on the run tokens[i..j-1]
should_convert(tokens, j, number_value) ==
  LET next_token == IF j <= Len(tokens) THEN Word(tokens[j]) ELSE "" IN
  \/ next_token \in NUMBER_FOLLOWERS
  \/ next_token = "phần" /\ j + 1 <= Len(tokens) /\ Word(tokens[j + 1]) = "tram"
  \/ next_token = "rưỡi"
  \/ j = Len(tokens) + 1 /\ number_value \notin {None, 0} /\ number_value >= 10

\* the exclusions with the one of a lone "không" left out
excluded_run_tram_only(words, number_value, prev_token) ==
  words = <<"tram">> /\ prev_token = "phần"

\* the runs normalize_vietnamese_numbers never converts: a lone "không", and a
\* lone "tram" right after "phần"
excluded_run(words, number_value, prev_token) ==
  \/ number_value = 0 /\ words = <<"không">>
  \/ words = <<"tram">> /\ prev_token = "phần"

\* the while loop of normalize_vietnamese_numbers
RECURSIVE normalize_tokens(_, _, _)
normalize_tokens(tokens, i, normalized_tokens) ==
  IF i > Len(tokens) THEN normalized_tokens
  ELSE IF Word(tokens[i]) \in NUMBER_TOKENS
    THEN LET j == run_end(tokens, i)
             words == [k \in 1..(j - i) |-> Word(tokens[i + k - 1])]
             number_value == words_to_number(words)
             prev_token == IF i > 1 THEN Word(tokens[i - 1]) ELSE ""
         IN IF /\ number_value # None
               /\ should_convert(tokens, j, number_value)
               /\ ~excluded_run(words, number_value, prev_token)
              THEN normalize_tokens(tokens, j,
                                    Append(normalized_tokens, <<ToString(number_value)>>))
              ELSE normalize_tokens(tokens, i + 1, Append(normalized_tokens, tokens[i]))
  ELSE normalize_tokens(tokens, i + 1, Append(normalized_tokens, tokens[i]))

\* vi_normalize.py: normalize_vietnamese_numbers
normalize_vietnamese_numbers(text) ==
  LET tokens == split(text) IN
  IF tokens = <<>> THEN text ELSE join(normalize_tokens(tokens, 1, <<>>))

\* vi_normalize.py: normalize_cancellation_terms
normalize_cancellation_terms(text) ==
  replace(replace(text, <<"hủy">>, <<"huỷ">>), <<"Hủy">>, <<"Huỷ">>)

\* vi_normalize.py: normalize_vietnamese_transcript
normalize_vietnamese_transcript(text) ==
  LET n1 == replace(text, <<"ti", "vi">>, <<"tv">>)
      n2 == replace(n1, <<"ti", " ", "vi">>, <<"tv">>)
      n3 == replace(n2, <<"ti", "-", "vi">>, <<"tv">>)
      n4 == replace(n3, <<"ti", ".", " ", "vi">>, <<"tv">>)
      n5 == replace(n4, <<"ga", " ", "ra">>, <<"ga", "ra">>)
  IN normalize_cancellation_terms(normalize_vietnamese_numbers(n5))

\* Inputs: texts of words separated by single spaces, and short texts with
\* free spacing over the symbols of the substitutions.
Words == {"một", "hai", "ba", "nam", "lam", "không", "mười", "mươi", "tram", "linh",
          "giờ", "phút", "phần", "rưỡi", "bật"}
Symbols == {" ", "ti", "vi", "-", ".", "ga", "ra", "hủy", "hai", "mươi"}

SeqsUpTo(S, n) == UNION {[1..k -> S] : k \in 0..n}
\* numeral phrases: a unit word; "mười" [unit]; unit "mươi" [unit]; and
\* unit "tram" followed by nothing, by a zero-filler and a unit, or by tens
UnitWords == DOMAIN NUMBER_UNITS
TensPhrases ==
  {<<"mười">>} \cup {<<"mười", u>> : u \in UnitWords}
    \cup {<<u, "mươi">> : u \in UnitWords}
    \cup {<<u, "mươi", v>> : u \in UnitWords, v \in UnitWords}
NumeralPhrases ==
  {<<u>> : u \in UnitWords} \cup TensPhrases
    \cup {<<u, "tram">> \o rest :
            u \in UnitWords,
            rest \in {<<>>} \cup {<<l, v>> : l \in {"linh", "lẻ"}, v \in UnitWords}
                          \cup TensPhrases}
NumeralTexts == {join([k \in 1..Len(ws) |-> <<ws[k]>>]) : ws \in NumeralPhrases}

WordTexts == {join([k \in 1..Len(ws) |-> <<ws[k]>>]) : ws \in SeqsUpTo(Words, MaxTokens)}
SymbolTexts == SeqsUpTo(Symbols, MaxLen)
Texts == WordTexts \cup SymbolTexts \cup NumeralTexts

NormInit ==
  /\ model = [type |-> "vietasr", language_family |-> "vi"]
  /\ installed = TRUE
  /\ ReqIdle
  /\ GreedyIdle
  /\ TokenIdle
  /\ VoskIdle
  /\ npc = "input"
  /\ transcript \in Texts
  /\ numbers = <<>>
  /\ once = <<>>
  /\ twice = <<>>
  /\ words_value = -1

NormalizeNumbers ==
  /\ npc = "input"
  /\ npc' = "numbers"
  /\ numbers' = normalize_vietnamese_numbers(transcript)
  /\ UNCHANGED <<transcript, once, twice, words_value>>
  /\ UNCHANGED notNorm

NormalizeTranscript ==
  /\ npc = "numbers"
  /\ npc' = "once"
  /\ once' = normalize_vietnamese_transcript(transcript)
  /\ UNCHANGED <<transcript, numbers, twice, words_value>>
  /\ UNCHANGED notNorm

NormalizeAgain ==
  /\ npc = "once"
  /\ npc' = "twice"
  /\ twice' = normalize_vietnamese_transcript(once)
  /\ UNCHANGED <<transcript, numbers, once, words_value>>
  /\ UNCHANGED notNorm

\* _words_to_number applied to the words of the text
WordsToNumber ==
  /\ npc = "input"
  /\ npc' = "value"
  /\ words_value' = LET tokens == split(transcript)
                     IN words_to_number([k \in DOMAIN tokens |-> Word(tokens[k])])
  /\ UNCHANGED <<transcript, numbers, once, twice>>
  /\ UNCHANGED notNorm

NormNext == NormalizeNumbers \/ NormalizeTranscript \/ NormalizeAgain \/ WordsToNumber

SpecNorm == NormInit /\ [][NormNext]_vars

(* ---------------------------------------------------------------------- *)
(* Properties of the normalizer (specification SpecNorm)                   *)
(* ---------------------------------------------------------------------- *)
Text(ws) == join([k \in 1..Len(ws) |-> <<ws[k]>>])
NumbersDone == npc \in {"numbers", "once", "twice"}

\* the index at which the maximal run of number-bearing tokens that ends the
\* token list starts (Len(tokens) + 1 when the last token bears no number)
RECURSIVE trailing_run_start(_, _)
trailing_run_start(tokens, i) ==
  IF i > 1 /\ Word(tokens[i - 1]) \in NUMBER_TOKENS
    THEN trailing_run_start(tokens, i - 1) ELSE i

TrailingRunRule(text, out) ==
  LET tokens == split(text)
      outs == split(out)
      n == Len(tokens)
      i == trailing_run_start(tokens, n + 1)
      run == SubSeq(tokens, i, n)
      words == [k \in 1..Len(run) |-> Word(run[k])]
      value == words_to_number(words)
      excluded == \/ words = <<"không">>
                  \/ words = <<"tram">> /\ i > 1 /\ Word(tokens[i - 1]) = "phần"
  IN i <= n =>
       IF value >= 10 /\ ~excluded
         THEN outs # <<>> /\ outs[Len(outs)] = <<ToString(value)>>
         ELSE /\ Len(outs) >= Len(run)
              /\ SubSeq(outs, Len(outs) - Len(run) + 1, Len(outs)) = run

\* C7: normalize_vietnamese_numbers maps "một giờ" to "1 giờ", "mười lam phút"
\* to "15 phút" and "hai mươi" to "20", leaves "không", "phần tram" and "ba"
\* unchanged, and converts a run that ends the text exactly when its value is
\* at least 10 and it is not an excluded lone run.
C7_NumberExamples ==
  NumbersDone =>
    /\ transcript = Text(<<"một", "giờ">>) => numbers = Text(<<"1", "giờ">>)
    /\ transcript = Text(<<"mười", "lam", "phút">>) => numbers = Text(<<"15", "phút">>)
    /\ transcript = Text(<<"hai", "mươi">>) => numbers = Text(<<"20">>)
    /\ transcript = Text(<<"không">>) => numbers = transcript
    /\ transcript = Text(<<"phần", "tram">>) => numbers = transcript
    /\ transcript = Text(<<"ba">>) => numbers = transcript
    /\ TrailingRunRule(transcript, numbers)

C7_Witness ==
  /\ npc = "numbers"
  /\ transcript = Text(<<"mười", "lam", "phút">>)
  /\ numbers = Text(<<"15", "phút">>)

\* C8: normalizing a normalized transcript changes nothing.
C8_Idempotent == npc = "twice" => twice = once

\* token i is a maximal run of number-bearing tokens all by itself
LoneRun(tokens, i) ==
  /\ Word(tokens[i]) \in NUMBER_TOKENS
  /\ i > 1 => Word(tokens[i - 1]) \notin NUMBER_TOKENS
  /\ i < Len(tokens) => Word(tokens[i + 1]) \notin NUMBER_TOKENS

\* C19: whatever precedes and follows, a run that is the single token "không"
\* comes out as "không", and a run that is the single token "tram" right after
\* "phần" comes out as "tram": the output token at the place of the run (the
\* tokens after the run yield the same output whether or not it is replaced)
\* is the input token.
C19_LoneRunsKept ==
  NumbersDone =>
    LET tokens == split(transcript)
        outs == split(numbers)
    IN \A i \in DOMAIN tokens :
         (/\ LoneRun(tokens, i)
          /\ \/ Word(tokens[i]) = "không"
             \/ Word(tokens[i]) = "tram" /\ i > 1 /\ Word(tokens[i - 1]) = "phần")
         => LET rest == normalize_tokens(tokens, i + 1, <<>>)
            IN /\ Len(outs) > Len(rest)
               /\ outs[Len(outs) - Len(rest)] = tokens[i]

\* a lone "không" before a unit of measure, after another word, left as it was
C19_Witness ==
  /\ npc = "numbers"
  /\ transcript = Text(<<"bật", "không", "giờ">>)
  /\ numbers = transcript

\* the value of a unit word, None for any other word
unit_value(w) == IF w \in DOMAIN NUMBER_UNITS THEN NUMBER_UNITS[w] ELSE None

\* the value "mười" [unit] or unit "mươi" [unit] denotes, None for other words
tens_value(ws) ==
  IF ws = <<"mười">> THEN 10
  ELSE IF Len(ws) = 2 /\ ws[1] = "mười" /\ unit_value(ws[2]) # None
    THEN 10 + unit_value(ws[2])
  ELSE IF Len(ws) = 2 /\ unit_value(ws[1]) # None /\ ws[2] = "mươi"
    THEN 10 * unit_value(ws[1])
  ELSE IF Len(ws) = 3 /\ unit_value(ws[1]) # None /\ ws[2] = "mươi"
          /\ unit_value(ws[3]) # None
    THEN 10 * unit_value(ws[1]) + unit_value(ws[3])
  ELSE None

\* the value in 0..999 a well-formed numeral phrase denotes, None for other words
denoted(ws) ==
  IF Len(ws) = 1 /\ unit_value(ws[1]) # None THEN unit_value(ws[1])
  ELSE IF tens_value(ws) # None THEN tens_value(ws)
  ELSE IF Len(ws) >= 2 /\ unit_value(ws[1]) # None /\ ws[2] = "tram"
    THEN LET hundreds == 100 * unit_value(ws[1])
             rest == SubSeq(ws, 3, Len(ws))
         IN IF rest = <<>> THEN hundreds
            ELSE IF Len(rest) = 2 /\ rest[1] \in {"linh", "lẻ"} /\ unit_value(rest[2]) # None
              THEN hundreds + unit_value(rest[2])
            ELSE IF tens_value(rest) # None THEN hundreds + tens_value(rest)
            ELSE None
  ELSE None

\* C20: _words_to_number returns the value a well-formed numeral phrase for
\* 0..999 denotes; "một tram hai mươi" gives 120 and "hai tram linh nam" 205.
C20_WordsToNumberDenotes ==
  npc = "value" =>
    LET tokens == split(transcript)
        words == [k \in DOMAIN tokens |-> Word(tokens[k])]
    IN /\ denoted(words) # None => words_value = denoted(words)
       /\ words = <<"một", "tram", "hai", "mươi">> => words_value = 120
       /\ words = <<"hai", "tram", "linh", "nam">> => words_value = 205

\* the runs tokens[i..j-1] the loop of normalize_vietnamese_numbers replaces
\* by a digit string, as pairs <<i, j>>
RECURSIVE converted_runs(_, _)
converted_runs(tokens, i) ==
  IF i > Len(tokens) THEN {}
  ELSE IF Word(tokens[i]) \in NUMBER_TOKENS
    THEN LET j == run_end(tokens, i)
             words == [k \in 1..(j - i) |-> Word(tokens[i + k - 1])]
             number_value == words_to_number(words)
             prev_token == IF i > 1 THEN Word(tokens[i - 1]) ELSE ""
         IN IF /\ number_value # None
               /\ should_convert(tokens, j, number_value)
               /\ ~excluded_run(words, number_value, prev_token)
              THEN {<<i, j>>} \cup converted_runs(tokens, j)
              ELSE converted_runs(tokens, i + 1)
  ELSE converted_runs(tokens, i + 1)

\* the unit-of-measure words
UnitOfMeasureWords == {"giờ", "phút", "giây", "ngày", "tháng", "nam", "dộ"}

\* C18: a number run is replaced by its digit string only if the token right
\* after it is a unit-of-measure word, or is "rưỡi", or is "phần" followed by
\* "tram", or the run ends the text with a value of at least 10; in
\* particular a run at the start of the text that is followed by "phần" and then
\* by something other than "tram" comes out as the words it was.
C18_ConvertsOnlyBeforeFollowers ==
  NumbersDone =>
    LET tokens == split(transcript)
        outs == split(numbers)
        n == Len(tokens)
        first_end == run_end(tokens, 1)
    IN /\ \A run \in converted_runs(tokens, 1) :
            LET i == run[1]
                j == run[2]
                next_token == IF j <= n THEN Word(tokens[j]) ELSE ""
                value == words_to_number([k \in 1..(j - i) |-> Word(tokens[i + k - 1])])
            IN \/ next_token \in UnitOfMeasureWords
               \/ next_token = "rưỡi"
               \/ next_token = "phần" /\ j + 1 <= n /\ Word(tokens[j + 1]) = "tram"
               \/ j = n + 1 /\ value >= 10
       /\ (/\ first_end > 1
           /\ first_end <= n
           /\ Word(tokens[first_end]) = "phần"
           /\ ~(first_end + 1 <= n /\ Word(tokens[first_end + 1]) = "tram"))
          => /\ Len(outs) >= first_end - 1
             /\ SubSeq(outs, 1, first_end - 1) = SubSeq(tokens, 1, first_end - 1)

\* the maximal runs of number-bearing tokens, as pairs <<i, j>> for tokens[i..j-1]
MaximalRuns(tokens) ==
  {run \in (DOMAIN tokens) \X (2..(Len(tokens) + 1)) :
     /\ run[1] < run[2]
     /\ \A k \in run[1]..(run[2] - 1) : Word(tokens[k]) \in NUMBER_TOKENS
     /\ run[1] > 1 => Word(tokens[run[1] - 1]) \notin NUMBER_TOKENS
     /\ run[2] <= Len(tokens) => Word(tokens[run[2]]) \notin NUMBER_TOKENS}

\* the tokens from index i on, with each run of the set chosen replaced by the
\* one token that spells its value in decimal digits
RECURSIVE with_runs_replaced(_, _, _)
with_runs_replaced(tokens, i, chosen) ==
  IF i > Len(tokens) THEN <<>>
  ELSE IF \E run \in chosen : run[1] = i
    THEN LET j == (CHOOSE run \in chosen : run[1] = i)[2]
             words == [k \in 1..(j - i) |-> Word(tokens[i + k - 1])]
         IN <<<<ToString(words_to_number(words))>>>> \o with_runs_replaced(tokens, j, chosen)
  ELSE <<tokens[i]>> \o with_runs_replaced(tokens, i + 1, chosen)

\* C21: the output of normalize_vietnamese_numbers is the input token
\* sequence with some of its maximal runs of number-bearing tokens each
\* replaced by one decimal-digit token, every other token (the words of the
\* runs left alone, and every token that bears no number) unchanged and in
\* order, joined by single spaces; no run is converted in part.
C21_WholeRunsOnly ==
  NumbersDone =>
    \A tokens \in {split(transcript)} :
      IF tokens = <<>>
        THEN split(numbers) = <<>>
        ELSE \E chosen \in SUBSET MaximalRuns(tokens) :
               numbers = join(with_runs_replaced(tokens, 1, chosen))

\* of two maximal runs the first, a lone unit before another word, is left as
\* it was and the second, which ends the text with value 10, is replaced
C21_Witness ==
  /\ npc = "numbers"
  /\ transcript = Text(<<"hai", "bật", "mười">>)
  /\ numbers = Text(<<"hai", "bật", "10">>)

(* ====================================================================== *)
(* The greedy transducer search (transcribe_vietasr.py: _greedy_search)     *)
(* ====================================================================== *)
\* largest batch
MaxBatch == 2
\* largest number of encoder frames of one batch element
MaxT == 2
\* largest context size of the decoder
MaxContext == 2
\* size of the vocabulary, blank included
NumTokens == 2

\* model.decoder.blank_id
blank_id == 0
Tokens == 0..(NumTokens - 1)

\* model.decoder: its output row is represented by the context it is computed from
decoder(context) == context

\* h[:context_size], the first tokens instead of the last ones
last_tokens_from_seed(h, n) == SubSeq(h, 1, n)

\* h[-context_size:]
last_tokens(h, n) == IF Len(h) <= n THEN h ELSE SubSeq(h, Len(h) - n + 1, Len(h))

\* h[context_size:] written with one seed token too few
strip_seed_short(h, n) == SubSeq(h, n, Len(h))

\* h[context_size:]
strip_seed(h, n) == SubSeq(h, n + 1, Len(h))

\* batch sizes of the padded, not packed, encoder output: every element at every step
batch_sizes_padded(lens) ==
  LET longest == CHOOSE n \in {lens[b] : b \in DOMAIN lens} :
                   \A b \in DOMAIN lens : lens[b] <= n
  IN [t \in 1..longest |-> Len(lens)]

\* pack_padded_sequence(..., enforce_sorted=False): batch_sizes
batch_sizes(lens) ==
  LET longest == CHOOSE n \in {lens[b] : b \in DOMAIN lens} :
                   \A b \in DOMAIN lens : lens[b] <= n
  IN [t \in 1..longest |-> Cardinality({b \in DOMAIN lens : lens[b] >= t})]

\* pack_padded_sequence(..., enforce_sorted=False): the permutations that sort
\* the batch by decreasing length (sorted_indices)
sorted_indices_of(lens) ==
  {p \in [DOMAIN lens -> DOMAIN lens] :
     /\ \A a, b \in DOMAIN lens : a # b => p[a] # p[b]
     /\ \A a, b \in DOMAIN lens : a < b => lens[p[a]] >= lens[p[b]]}

\* the inverse permutation
inverse(p) == [i \in DOMAIN p |-> CHOOSE k \in DOMAIN p : p[k] = i]

\* indices that leave the hypotheses in the length-sorted order
unsorted_indices_kept_sorted(p) == [i \in DOMAIN p |-> i]

\* packed_encoder_out.unsorted_indices: the inverse of sorted_indices
unsorted_indices_of(p) == inverse(p)

\* one loop iteration that evaluates the joiner again after every emitted token
greedy_step_per_token(hs, dec, n, current_batch, top_ids, joiners, decoders) ==
  LET emits == {b \in 1..current_batch : top_ids[b] # blank_id}
      new == [b \in DOMAIN hs |->
                IF b \in emits THEN Append(hs[b], top_ids[b]) ELSE hs[b]]
  IN [hyps |-> new,
      decoder_out |-> IF emits # {}
                        THEN [b \in 1..current_batch |->
                                decoder(last_tokens(new[b], n))]
                        ELSE dec,
      joiner_calls |-> joiners + 1 + Cardinality(emits),
      decoder_calls |-> IF emits # {} THEN decoders + 1 ELSE decoders]

\* one iteration of "for current_batch in batch_size_list"
greedy_step(hs, dec, n, current_batch, top_ids, joiners, decoders) ==
  LET emitted == \E b \in 1..current_batch : top_ids[b] # blank_id
      new == [b \in DOMAIN hs |->
                IF b <= current_batch /\ top_ids[b] # blank_id
                  THEN Append(hs[b], top_ids[b]) ELSE hs[b]]
  IN [hyps |-> new,
      decoder_out |-> IF emitted
                        THEN [b \in 1..current_batch |->
                                decoder(last_tokens(new[b], n))]
                        ELSE dec,
      joiner_calls |-> joiners + 1,
      decoder_calls |-> IF emitted THEN decoders + 1 ELSE decoders]

GreedyInit ==
  /\ model = [type |-> "vietasr", language_family |-> "vi"]
  /\ installed = TRUE
  /\ ReqIdle
  /\ NormIdle
  /\ TokenIdle
  /\ VoskIdle
  /\ gpc = "start"
  /\ dim \in {2, 3}
  /\ context_size \in 1..MaxContext
  /\ encoder_out_lens \in UNION {[1..b -> 1..MaxT] : b \in 1..MaxBatch}
  /\ batch_size_list = <<>>
  /\ sorted_indices = <<>>
  /\ unsorted_indices = <<>>
  /\ offset = 0
  /\ hyps = <<>>
  /\ decoder_out = <<>>
  /\ joiner_calls = 0
  /\ decoder_calls = 0
  /\ top_history = <<>>
  /\ results = <<>>

\* _greedy_search up to the loop: shape check, packing, seeding
GreedyStart ==
  /\ gpc = "start"
  /\ IF dim # 3
       THEN /\ gpc' = "TranscribingError"
            /\ UNCHANGED <<batch_size_list, sorted_indices, unsorted_indices, hyps,
                           decoder_out, decoder_calls, results>>
       ELSE \E perm \in sorted_indices_of(encoder_out_lens) :
              LET sizes == batch_sizes(encoder_out_lens)
                  seed == [b \in DOMAIN encoder_out_lens |->
                             [k \in 1..context_size |-> blank_id]]
              IN /\ batch_size_list' = sizes
                 /\ sorted_indices' = perm
                 /\ unsorted_indices' = unsorted_indices_of(perm)
                 /\ IF sizes = <<>>
                      THEN /\ gpc' = "done"
                           /\ results' = <<>>
                           /\ UNCHANGED <<hyps, decoder_out, decoder_calls>>
                      ELSE /\ gpc' = "loop"
                           /\ hyps' = seed
                           /\ decoder_out' = [b \in DOMAIN seed |-> decoder(seed[b])]
                           /\ decoder_calls' = decoder_calls + 1
                           /\ UNCHANGED results
  /\ UNCHANGED <<dim, context_size, encoder_out_lens, offset, joiner_calls, top_history>>
  /\ UNCHANGED notGreedy

\* one iteration of the loop; top_ids is what the joiner's arg-max yields
GreedyStep ==
  /\ gpc = "loop"
  /\ Len(top_history) < Len(batch_size_list)
  /\ LET current_batch == batch_size_list[Len(top_history) + 1] IN
     \E top_ids \in [1..current_batch -> Tokens] :
       LET g == greedy_step(hyps, decoder_out, context_size, current_batch, top_ids,
                            joiner_calls, decoder_calls)
       IN /\ offset' = offset + current_batch
          /\ hyps' = g.hyps
          /\ decoder_out' = g.decoder_out
          /\ joiner_calls' = g.joiner_calls
          /\ decoder_calls' = g.decoder_calls
          /\ top_history' = Append(top_history, top_ids)
  /\ UNCHANGED <<gpc, dim, context_size, encoder_out_lens, batch_size_list,
                 sorted_indices, unsorted_indices, results>>
  /\ UNCHANGED notGreedy

\* after the loop: strip the seed and restore the original batch order
GreedyFinish ==
  /\ gpc = "loop"
  /\ Len(top_history) = Len(batch_size_list)
  /\ gpc' = "done"
  /\ results' = [i \in DOMAIN encoder_out_lens |->
                   strip_seed(hyps[unsorted_indices[i]], context_size)]
  /\ UNCHANGED <<dim, context_size, encoder_out_lens, batch_size_list, sorted_indices,
                 unsorted_indices, offset, hyps, decoder_out, joiner_calls, decoder_calls, top_history>>
  /\ UNCHANGED notGreedy

GreedyNext == GreedyStart \/ GreedyStep \/ GreedyFinish

SpecGreedy == GreedyInit /\ [][GreedyNext]_vars

\* _greedy_search is synchronous code: it keeps running until it returns or raises
SpecGreedyFair == SpecGreedy /\ WF_vars(GreedyNext)

(* ---------------------------------------------------------------------- *)
(* Properties of the greedy search                                         *)
(* ---------------------------------------------------------------------- *)
NonBlank(id) == id # blank_id
\* the arg-maxes the joiner yielded for the single batch element, in step order
TopIdsOfFirst == [t \in 1..Len(top_history) |-> top_history[t][1]]

\* the search returns: fairness keeps the synchronous loop running to its end
GreedyTerminates == (gpc = "loop") ~> (gpc = "done")

\* C9: the loop takes one step per entry of batch_size_list, each step with one
\* joiner evaluation, and then the search returns: while it runs the steps taken
\* equal the joiner evaluations and never exceed len(batch_size_list), a next
\* step is always possible, and every step either takes the next entry or
\* returns; when it has returned the joiner has been evaluated exactly
\* len(batch_size_list) times, whatever was emitted; and no step makes a
\* hypothesis shorter.
C9_OneJoinerCallPerStep ==
  /\ [](gpc = "loop" => /\ joiner_calls = Len(top_history)
                        /\ Len(top_history) <= Len(batch_size_list)
                        /\ ENABLED (GreedyStep \/ GreedyFinish))
  /\ [](gpc = "done" => joiner_calls = Len(batch_size_list))
  /\ [][gpc = "loop" => \/ gpc' = "done" /\ joiner_calls' = joiner_calls
                        \/ /\ gpc' = "loop"
                           /\ Len(top_history') = Len(top_history) + 1
                           /\ joiner_calls' = joiner_calls + 1]_vars
  /\ [][\A b \in DOMAIN hyps : Len(hyps'[b]) >= Len(hyps[b])]_vars

\* a finished search over two steps of a batch of two, tokens emitted at both
C9_Witness ==
  /\ gpc = "done"
  /\ Len(encoder_out_lens) = 2
  /\ Len(batch_size_list) = 2
  /\ joiner_calls = 2
  /\ \E i \in DOMAIN results : Len(results[i]) >= 2

\* C10: for a single batch element the returned hypothesis is the sequence of
\* the non-blank arg-maxes in step order: empty when every arg-max is blank,
\* the one id when exactly one arg-max is not blank.
C10_NonBlankArgmaxes ==
  (gpc = "done" /\ Len(encoder_out_lens) = 1) =>
     /\ results[1] = SelectSeq(TopIdsOfFirst, NonBlank)
     /\ (\A t \in DOMAIN TopIdsOfFirst : TopIdsOfFirst[t] = blank_id) => results[1] = <<>>
     /\ \A t \in DOMAIN TopIdsOfFirst :
          (\A u \in DOMAIN TopIdsOfFirst : (TopIdsOfFirst[u] # blank_id) <=> (u = t))
             => results[1] = <<TopIdsOfFirst[t]>>

\* a single element, one non-blank arg-max followed by blanks, one token returned
C10_Witness ==
  /\ gpc = "done"
  /\ Len(encoder_out_lens) = 1
  /\ context_size = 2
  /\ Len(top_history) = 2
  /\ TopIdsOfFirst = <<1, blank_id>>
  /\ results[1] = <<1>>
\* one iteration of a search that recomputes the decoder output of every
\* active element at every step
greedy_step_recompute(hs, n, current_batch, top_ids) ==
  LET new == [b \in DOMAIN hs |->
                IF b <= current_batch /\ top_ids[b] # blank_id
                  THEN Append(hs[b], top_ids[b]) ELSE hs[b]]
  IN [hyps |-> new,
      decoder_out |-> [b \in 1..current_batch |->
                         decoder(SubSeq(new[b], Len(new[b]) - n + 1, Len(new[b])))]]

\* C16: whenever the joiner is about to be evaluated, the decoder-output row
\* of every active element is the decoder applied to the last context_size
\* tokens of its hypothesis; every step yields the hypotheses, and for the
\* elements it was active for the decoder rows, of the step that recomputes
\* all rows; and a step evaluates the decoder exactly when one of its active
\* elements emitted a non-blank token.
C16_DecoderReuse ==
  /\ []((gpc = "loop" /\ Len(top_history) < Len(batch_size_list)) =>
          \A b \in 1..batch_size_list[Len(top_history) + 1] :
             /\ b \in DOMAIN decoder_out
             /\ decoder_out[b] =
                  decoder(SubSeq(hyps[b], Len(hyps[b]) - context_size + 1, Len(hyps[b]))))
  /\ [][GreedyStep =>
          LET t == Len(top_history) + 1
              current_batch == batch_size_list[t]
              top_ids == top_history'[t]
              all == greedy_step_recompute(hyps, context_size, current_batch, top_ids)
          IN /\ hyps' = all.hyps
             /\ \A b \in 1..current_batch : decoder_out'[b] = all.decoder_out[b]
             /\ decoder_calls' =
                  IF \E b \in 1..current_batch : top_ids[b] # blank_id
                    THEN decoder_calls + 1 ELSE decoder_calls]_vars

\* a batch of two of lengths 2 and 1 was searched; the decoder was evaluated
\* for the seed and at one of the two steps, and reused at the other
C16_Witness ==
  /\ gpc = "done"
  /\ context_size = 2
  /\ batch_size_list = <<2, 1>>
  /\ joiner_calls = 2
  /\ decoder_calls = 2
  /\ top_history[1] = <<blank_id, 1>>
  /\ top_history[2] = <<blank_id>>

\* the row of the packed data that holds the frames of batch element i
row_of(i) == CHOOSE k \in DOMAIN sorted_indices : sorted_indices[k] = i
\* the arg-maxes the joiner yielded on the frames of batch element i, in frame order
TopIdsOf(i) == [t \in 1..encoder_out_lens[i] |-> top_history[t][row_of(i)]]

\* C17: the packed rows are the batch elements in an order of decreasing
\* length, each row active for exactly the frames of its element; the search
\* returns one hypothesis per batch element, and results[i] is the sequence of
\* non-blank arg-maxes the joiner yielded on the frames of batch element i,
\* whatever the lengths and their order.
C17_OriginalBatchOrder ==
  /\ [](gpc \in {"loop", "done"} =>
          /\ DOMAIN sorted_indices = DOMAIN encoder_out_lens
          /\ \A i \in DOMAIN encoder_out_lens : \E k \in DOMAIN sorted_indices :
                sorted_indices[k] = i
          /\ \A k \in DOMAIN sorted_indices : \A t \in DOMAIN batch_size_list :
                (k <= batch_size_list[t]) <=> (t <= encoder_out_lens[sorted_indices[k]]))
  /\ []((gpc = "done" /\ batch_size_list # <<>>) =>
          /\ DOMAIN results = DOMAIN encoder_out_lens
          /\ \A i \in DOMAIN encoder_out_lens :
                results[i] = SelectSeq(TopIdsOf(i), NonBlank))

\* a shorter utterance given before a longer one: the first result is empty
\* although the first packed row emitted at both steps
C17_Witness ==
  /\ gpc = "done"
  /\ encoder_out_lens = <<1, 2>>
  /\ sorted_indices = <<2, 1>>
  /\ top_history = <<<<1, blank_id>>, <<1>>>>
  /\ results = <<<<>>, <<1, 1>>>>

\* the steps taken so far in which row b was active
ActiveSteps(b) == {t \in 1..Len(top_history) : b <= batch_size_list[t]}
\* row b is not among the rows of the next step, or there is no next step
Inactive(b) ==
  \/ Len(top_history) >= Len(batch_size_list)
  \/ b > batch_size_list[Len(top_history) + 1]

\* C22: a step appends at most one token, a non-blank one, to each of the
\* first batch_size_list[t] rows and leaves every other row alone; so the
\* tokens a row has emitted never exceed the steps it was active in, which
\* never exceed the encoder length of its element; the batch sizes never grow,
\* and a row that is inactive never changes again.
C22_ActiveElementsOnly ==
  /\ [][GreedyStep =>
          LET current_batch == batch_size_list[Len(top_history) + 1]
          IN \A b \in DOMAIN hyps :
               IF b <= current_batch
                 THEN \/ hyps'[b] = hyps[b]
                      \/ \E token_id \in Tokens \ {blank_id} :
                           hyps'[b] = Append(hyps[b], token_id)
                 ELSE hyps'[b] = hyps[b]]_vars
  /\ [](gpc \in {"loop", "done"} =>
          /\ \A t \in DOMAIN batch_size_list :
                t > 1 => batch_size_list[t] <= batch_size_list[t - 1]
          /\ \A b \in DOMAIN hyps :
                /\ Len(hyps[b]) - context_size <= Cardinality(ActiveSteps(b))
                /\ Cardinality(ActiveSteps(b)) <= encoder_out_lens[sorted_indices[b]])
  /\ [][(gpc = "loop" \/ gpc = "done") =>
          \A b \in DOMAIN hyps :
             Inactive(b) => /\ Inactive(b)'
                            /\ hyps'[b] = hyps[b]]_vars

\* the second row emitted at the one step it was active in and was left alone
\* at the second step, at which the first row emitted again
C22_Witness ==
  /\ gpc = "loop"
  /\ context_size = 1
  /\ encoder_out_lens = <<2, 1>>
  /\ batch_size_list = <<2, 1>>
  /\ top_history = <<<<1, 1>>, <<1>>>>
  /\ hyps = <<<<blank_id, 1, 1>>, <<blank_id, 1>>>>

(* ====================================================================== *)
(* Token ids to text (transcribe_vietasr.py: _tokens_to_text)               *)
(* ====================================================================== *)
\* A token is a sequence of characters; "<blk>" is written as one symbol. A
\* word is a non-empty sequence of characters other than the space.
\* largest number of words in an encoded string
MaxWords == 2
\* largest number of characters of a word
MaxWordLen == 1

marker == "▁"
blk == <<"<blk>">>
WordChars == {"a", "b", marker}

\* the pieces tokens.txt lists: every piece of a word with the marker in front
Pieces == SeqsUpTo(WordChars, MaxWordLen + 1) \ {<<>>}

RECURSIVE listed(_)
listed(S) ==
  IF S = {} THEN <<>>
  ELSE LET x == CHOOSE y \in S : TRUE IN <<x>> \o listed(S \ {x})

\* the lists _read_tokens may return: "<blk>" at index 0 and then the pieces,
\* with or without an index that no line of the file names (left as "")
TokenTables == {<<blk>> \o listed(Pieces), <<blk, <<>>>> \o listed(Pieces)}

\* "".join(pieces)
RECURSIVE concat(_)
concat(pieces) ==
  IF pieces = <<>> THEN <<>> ELSE pieces[1] \o concat(Tail(pieces))

\* str.strip() on a sequence of characters
RECURSIVE lstrip_chars(_)
lstrip_chars(text) ==
  IF text # <<>> /\ text[1] = " " THEN lstrip_chars(Tail(text)) ELSE text
RECURSIVE rstrip_chars(_)
rstrip_chars(text) ==
  IF text # <<>> /\ text[Len(text)] = " "
    THEN rstrip_chars(SubSeq(text, 1, Len(text) - 1)) ELSE text
strip_chars(text) == rstrip_chars(lstrip_chars(text))

\* the loop of _tokens_to_text: the tokens of the ids in range, "<blk>" skipped
RECURSIVE pieces_of(_, _)
pieces_of(ids, tokens) ==
  IF ids = <<>> THEN <<>>
  ELSE LET idx == ids[1]
           rest == pieces_of(Tail(ids), tokens)
       IN IF 0 <= idx /\ idx < Len(tokens)
            THEN (IF tokens[idx + 1] = blk THEN rest ELSE <<tokens[idx + 1]>> \o rest)
            ELSE rest

\* _tokens_to_text that deletes the marker instead of writing a space for it
tokens_to_text_marker_deleted(ids, tokens) ==
  strip_chars(replace(concat(pieces_of(ids, tokens)), <<marker>>, <<>>))

\* transcribe_vietasr.py: _tokens_to_text
tokens_to_text(ids, tokens) ==
  strip_chars(replace(concat(pieces_of(ids, tokens)), <<marker>>, <<" ">>))

\* the index of a token in the table
id_of(token, tokens) == (CHOOSE k \in 1..Len(tokens) : tokens[k] = token) - 1

\* the ways of cutting a sequence of characters into pieces
RECURSIVE cuts(_)
cuts(chars) ==
  IF chars = <<>> THEN {<<>>}
  ELSE UNION {{<<SubSeq(chars, 1, k)>> \o rest :
                 rest \in cuts(SubSeq(chars, k + 1, Len(chars)))} :
              k \in 1..Len(chars)}

\* the encodings of a string of words: every word, with the marker in front,
\* cut into pieces of the table
RECURSIVE encodings(_)
encodings(ws) ==
  IF ws = <<>> THEN {<<>>}
  ELSE {first \o rest : first \in cuts(<<marker>> \o ws[1]),
                        rest \in encodings(Tail(ws))}

SentenceWords == SeqsUpTo(WordChars, MaxWordLen) \ {<<>>}

TokenInit ==
  /\ model = [type |-> "vietasr", language_family |-> "vi"]
  /\ installed = TRUE
  /\ ReqIdle
  /\ NormIdle
  /\ GreedyIdle
  /\ VoskIdle
  /\ kpc = "input"
  /\ token_table \in TokenTables
  /\ sentence \in SeqsUpTo(SentenceWords, MaxWords)
  /\ token_ids = <<>>
  /\ decoded = <<>>

\* the string is encoded as ids of the table
Encode ==
  /\ kpc = "input"
  /\ \E e \in encodings(sentence) :
       token_ids' = [k \in 1..Len(e) |-> id_of(e[k], token_table)]
  /\ kpc' = "encoded"
  /\ UNCHANGED <<token_table, sentence, decoded>>
  /\ UNCHANGED notToken

\* _tokens_to_text is called on the ids
TokensToText ==
  /\ kpc = "encoded"
  /\ decoded' = tokens_to_text(token_ids, token_table)
  /\ kpc' = "done"
  /\ UNCHANGED <<token_table, sentence, token_ids>>
  /\ UNCHANGED notToken

TokenNext == Encode \/ TokensToText

SpecTokens == TokenInit /\ [][TokenNext]_vars

(* ---------------------------------------------------------------------- *)
(* Properties of the token conversion (specification SpecTokens)           *)
(* ---------------------------------------------------------------------- *)
\* C11 as stated: a string of words separated by single spaces, encoded with
\* the marker in front of each word, is returned unchanged by _tokens_to_text.
C11_TokenRoundTripAsStated ==
  kpc = "done" => decoded = join(sentence)

MarkerFree(ws) == \A k \in DOMAIN ws : \A c \in DOMAIN ws[k] : ws[k][c] # marker

\* C11 as amended: a string of words separated by single spaces, none of which
\* contains the marker character, encoded with the marker in front of each
\* word, is returned unchanged by _tokens_to_text.
C11_TokenRoundTrip ==
  (kpc = "done" /\ MarkerFree(sentence)) => decoded = join(sentence)

\* two words, the second encoded as two pieces, decoded to the original string
C11_Witness ==
  /\ kpc = "done"
  /\ sentence = <<<<"a">>, <<"b">>>>
  /\ Len(token_ids) = 3
  /\ decoded = <<"a", " ", "b">>
(* ====================================================================== *)
(* Vosk streaming (transcribe_vosk.py) with the recognizers it drives       *)
(* ====================================================================== *)
\* A chunk is named <<r, k>>: the k-th non-empty chunk of the stream of
\* request r; the empty chunk is <<>>. A recognizer is the record of the chunks it was given and of the
\* non-empty texts it has returned. A text it returns is one symbol (a string)
\* that names the chunk it was given last and whether it is a final text.
VoskLoadEnvs == {AllOk, [AllOk EXCEPT !.files = FALSE], [AllOk EXCEPT !.load = FALSE]}
\* What FinalResult() answers.
FinalAnswers == {"raise", "text", "empty"}

\* a recognizer kept and handed to every request
new_recognizer_shared(r) == 1
\* KaldiRecognizer(vosk_model, RATE) in the call of request r: a new object
new_recognizer(r) == r

Fragment(chunk, final) == ToString([upto |-> chunk, final |-> final])
last_chunk(rec) == IF rec.accepted = <<>> THEN <<>> ELSE rec.accepted[Len(rec.accepted)]

\* recognizer.AcceptWaveform(chunk)
AcceptWaveform(rec, chunk) ==
  [rec EXCEPT !.accepted = Append(@, chunk)]
\* recognizer.Result() / recognizer.FinalResult(): the text and the recognizer after
ResultOf(rec, nonempty, final) ==
  LET text == IF nonempty THEN <<Fragment(last_chunk(rec), final)>> ELSE <<>>
  IN [text |-> text,
      rec |-> [rec EXCEPT !.produced = IF text # <<>> THEN Append(@, text) ELSE @]]

\* the loop body of transcribe_vosk
vosk_loop_body(rec, frags, chunk, answer) ==
  LET fed == AcceptWaveform(rec, chunk) IN
  IF chunk = <<>> THEN [raise |-> "none", rec |-> rec, frags |-> frags]
  ELSE IF answer = "raise" THEN [raise |-> "Exception", rec |-> fed, frags |-> frags]
  ELSE IF answer = "more" THEN [raise |-> "none", rec |-> fed, frags |-> frags]
  ELSE LET res == ResultOf(fed, answer = "boundary_text", FALSE)
           text == strip_chars(res.text)
       IN [raise |-> "none", rec |-> res.rec,
           frags |-> IF text # <<>> THEN Append(frags, text) ELSE frags]

\* transcribe_vosk after the loop, with the final text thrown away
vosk_after_loop_final_dropped(rec, frags, answer) ==
  IF answer = "raise"
    THEN [raise |-> "Exception", rec |-> rec, frags |-> frags, text |-> <<>>]
  ELSE LET res == ResultOf(rec, answer = "text", TRUE)
       IN [raise |-> "none", rec |-> res.rec, frags |-> frags,
           text |-> IF frags = <<>> THEN <<>> ELSE join(frags)]

\* transcribe_vosk after the loop: FinalResult(), the join of the fragments
vosk_after_loop(rec, frags, answer) ==
  IF answer = "raise"
    THEN [raise |-> "Exception", rec |-> rec, frags |-> frags, text |-> <<>>]
  ELSE LET res == ResultOf(rec, answer = "text", TRUE)
           final_text == strip_chars(res.text)
           all == IF final_text # <<>> THEN Append(frags, final_text) ELSE frags
       IN [raise |-> "none", rec |-> res.rec, frags |-> all,
           text |-> IF all = <<>> THEN <<>> ELSE join(all)]

Recognizer(id) ==
  [accepted |-> accepted[id], produced |-> produced[id]]

VoskInit ==
  /\ model = [type |-> "vosk", language_family |-> "vi"]
  /\ installed = TRUE
  /\ ReqIdle
  /\ NormIdle
  /\ GreedyIdle
  /\ TokenIdle
  /\ VoskIdle

\* transcribe_vosk is called: import guard, directory check, cache lookup or
\* VoskModel(...), KaldiRecognizer(...), up to the first await
VoskEnter(r) ==
  /\ vpc[r] = "idle"
  /\ \E env \in VoskLoadEnvs :
       LET l == vosk_load_resources(VOSK_MODELS, [env EXCEPT !.deps = installed])
           entry == IF l.insert THEN NewEntry(VOSK_MODELS) ELSE VOSK_MODELS
       IN /\ VOSK_MODELS' = entry
          /\ IF l.raise = "none"
               THEN /\ vpc' = [vpc EXCEPT ![r] = "stream"]
                    /\ vosk_model' = [vosk_model EXCEPT ![r] = entry]
                    /\ recognizer' = [recognizer EXCEPT ![r] = new_recognizer(r)]
                    /\ UNCHANGED voutcome
               ELSE /\ vpc' = [vpc EXCEPT ![r] = "done"]
                    /\ voutcome' = [voutcome EXCEPT ![r] = l.raise]
                    /\ UNCHANGED <<vosk_model, recognizer>>
  /\ UNCHANGED <<accepted, produced, flushes, arrived, fragments, joined>>
  /\ UNCHANGED notVosk

\* the stream of request r delivers one more chunk
VoskChunk(r) ==
  /\ vpc[r] = "stream"
  /\ \E empty \in BOOLEAN, answer \in AcceptAnswers :
       /\ empty \/ arrived[r] < MaxBytes
       /\ LET id == recognizer[r]
              chunk == IF empty THEN <<>> ELSE <<r, arrived[r] + 1>>
              b == vosk_loop_body(Recognizer(id), fragments[r], chunk, answer)
          IN IF b.raise = "none"
               THEN /\ accepted' = [accepted EXCEPT ![id] = b.rec.accepted]
                    /\ produced' = [produced EXCEPT ![id] = b.rec.produced]
                    /\ arrived' = [arrived EXCEPT ![r] = IF empty THEN @ ELSE @ + 1]
                    /\ fragments' = [fragments EXCEPT ![r] = b.frags]
                    /\ UNCHANGED <<vpc, voutcome>>
               ELSE /\ accepted' = [accepted EXCEPT ![id] = <<>>]
                    /\ produced' = [produced EXCEPT ![id] = <<>>]
                    /\ arrived' = [arrived EXCEPT ![r] = 0]
                    /\ fragments' = [fragments EXCEPT ![r] = <<>>]
                    /\ vpc' = [vpc EXCEPT ![r] = "done"]
                    /\ voutcome' = [voutcome EXCEPT ![r] = b.raise]
  /\ UNCHANGED <<VOSK_MODELS, vosk_model, recognizer, flushes, joined>>
  /\ UNCHANGED notVosk

\* the stream of request r is exhausted: the request runs to its end
VoskEndOfStream(r) ==
  /\ vpc[r] = "stream"
  /\ \E answer \in FinalAnswers :
       LET id == recognizer[r]
           a == vosk_after_loop(Recognizer(id), fragments[r], answer)
       IN /\ vpc' = [vpc EXCEPT ![r] = "done"]
          /\ flushes' = [flushes EXCEPT ![r] = @ + 1]
          /\ produced' = [produced EXCEPT ![id] =
                            IF a.raise = "none" THEN a.rec.produced ELSE <<>>]
          /\ joined' = [joined EXCEPT ![r] = a.text]
          /\ accepted' = [accepted EXCEPT ![id] = <<>>]
          /\ arrived' = [arrived EXCEPT ![r] = 0]
          /\ fragments' = [fragments EXCEPT ![r] = <<>>]
          /\ voutcome' = [voutcome EXCEPT ![r] =
                            IF a.raise = "none" THEN "returned" ELSE a.raise]
  /\ UNCHANGED <<VOSK_MODELS, vosk_model, recognizer>>
  /\ UNCHANGED notVosk

VoskNext == \E r \in Req : VoskEnter(r) \/ VoskChunk(r) \/ VoskEndOfStream(r)

SpecVosk == VoskInit /\ [][VoskNext]_vars

(* ---------------------------------------------------------------------- *)
(* Properties of Vosk streaming (specification SpecVosk)                   *)
(* ---------------------------------------------------------------------- *)
\* the non-empty chunks the stream of r has delivered, in arrival order
OwnChunks(r) == [k \in 1..arrived[r] |-> <<r, k>>]

\* C14: while a request streams, its recognizer has been given exactly the
\* non-empty chunks delivered so far, each once and in arrival order, and the
\* list of fragments is the list of the non-empty texts the recognizer has
\* returned; FinalResult is called only when the stream is exhausted, once;
\* and the text handed to the casing function is the non-empty texts the
\* recognizer returned, the final one last, joined with single spaces.
C14_VoskStreaming ==
  /\ [](\A r \in Req : vpc[r] = "stream" =>
           /\ accepted[recognizer[r]] = OwnChunks(r)
           /\ fragments[r] = produced[recognizer[r]])
  /\ [](\A r \in Req : /\ (vpc[r] # "done" => flushes[r] = 0)
                        /\ (voutcome[r] = "returned" => flushes[r] = 1)
                        /\ flushes[r] <= 1)
  /\ [][\A r \in Req : flushes'[r] # flushes[r] => VoskEndOfStream(r)]_vars
  /\ [][\A r \in Req : (VoskEndOfStream(r) /\ voutcome'[r] = "returned") =>
           /\ SubSeq(produced'[recognizer[r]], 1, Len(fragments[r])) = fragments[r]
           /\ joined'[r] = join(produced'[recognizer[r]])]_vars

\* a request returned the join of two partial results and a final text
C14_Witness ==
  \E r \in Req :
    /\ voutcome[r] = "returned"
    /\ flushes[r] = 1
    /\ joined[r] = <<Fragment(<<r, 1>>, FALSE), " ", Fragment(<<r, 2>>, FALSE), " ",
                     Fragment(<<r, 2>>, TRUE)>>

\* the texts a request can return when it runs alone on a stream of n
\* non-empty chunks, from chunk k on
RECURSIVE solo_texts(_, _, _, _, _)
solo_texts(r, k, n, rec, frags) ==
  IF k > n
    THEN {vosk_after_loop(rec, frags, answer).text : answer \in {"text", "empty"}}
    ELSE UNION {LET b == vosk_loop_body(rec, frags, <<r, k>>, answer)
                IN solo_texts(r, k + 1, n, b.rec, b.frags) :
                answer \in {"more", "boundary_text", "boundary_empty"}}
FreshRecognizer == [accepted |-> <<>>, produced |-> <<>>]

\* C15: interleaved requests have distinct recognizers, each given only chunks
\* of its own request; a request returns a text it can return when it runs
\* alone on its own chunks; all requests work with the one cached model, and an
\* entry once stored under the key is never replaced.
C15_VoskIsolation ==
  /\ [](\A r, q \in Req : (r # q /\ recognizer[r] # 0 /\ recognizer[q] # 0) =>
           recognizer[r] # recognizer[q])
  /\ [](\A r \in Req : recognizer[r] # 0 =>
           \A k \in DOMAIN accepted[recognizer[r]] : accepted[recognizer[r]][k][1] = r)
  /\ [](\A r \in Req : vosk_model[r] # 0 => vosk_model[r] = VOSK_MODELS)
  /\ [][VOSK_MODELS # 0 => VOSK_MODELS' = VOSK_MODELS]_vars
  /\ [][\A r \in Req : (VoskEndOfStream(r) /\ voutcome'[r] = "returned") =>
           joined'[r] \in solo_texts(r, 1, arrived[r], FreshRecognizer, <<>>)]_vars

\* two requests on the one cached model are both in their loops, each has fed
\* chunks and captured a fragment
C15_Witness ==
  /\ vpc[1] = "stream" /\ vpc[2] = "stream"
  /\ vosk_model[1] = VOSK_MODELS /\ vosk_model[2] = VOSK_MODELS /\ VOSK_MODELS # 0
  /\ arrived[1] = 2 /\ arrived[2] = 1
  /\ fragments[1] # <<>> /\ fragments[2] # <<>>
====
